---------------------------- MODULE Spec2Model ----------------------------
(***************************************************************************)
(* Model of the energy dispatch optimizer (backend/core/optimizer.py and   *)
(* backend/core/config.py): EnergyOptimizer.optimize, the linear program   *)
(* it builds, the result record it returns and the last_solution field it  *)
(* keeps.                                                                  *)
(*                                                                         *)
(* Arithmetic is exact fixed point:                                        *)
(*   flows and demands (T/hr, MW)      in 1/1000   ("milli")               *)
(*   regression coefficients           in 1/10000                          *)
(*   generator power before rounding   in 1/10^7   ("PU" = coef * milli)   *)
(*   money (DH/hr)                     in 1/1000                           *)
(* round(x, 2) of the source becomes rounding to a multiple of 10 milli    *)
(* (of 10^5 PU for a power), half to even.                                 *)
(***************************************************************************)
EXTENDS Integers, Sequences, FiniteSets, TLC

(***************************************************************************)
(* backend/core/config.py                                                  *)
(***************************************************************************)
\* FinancialConstants: DH/kWh in 1/1000, so that E[MW] * cost * 1000 is
\* E * GRID_x_COST DH/hr.
GRID_PEAK_COST == 1271
GRID_STANDARD_COST == 897
GRID_OFF_PEAK_COST == 552
\* DH per ton of steam
BOILER_COST == 284
SULFURIC_HEAT_COST == 20
\* 0.65 DH/kWh in 1/100: A * GTA_FUEL_COST * 100 is A * 65 DH/hr
GTA_FUEL_COST == 65
PEAK_HOURS_START == 17
PEAK_HOURS_END == 22
STANDARD_HOURS_START == 7
STANDARD_HOURS_END == 17

\* PhysicsCoefficients, coefficients in 1/10000, intercepts in 1/100
GTA1_COEF_A == 2761
GTA1_COEF_S == -1805
GTA1_INTERCEPT == -272
GTA2_COEF_A == 2560
GTA2_COEF_S == -1782
GTA2_INTERCEPT == -2
GTA3_COEF_A == 2573
GTA3_COEF_S == -1723
GTA3_INTERCEPT == 6
\* bounds in milli T/hr
MAX_ADMISSION == 190000
MAX_SOUTIRAGE == 100000
MIN_ADMISSION == 0
MIN_SOUTIRAGE == 0

\* SystemConstraints, milli units; the margins in 1/100
MAX_TOTAL_STEAM_PRODUCTION == 600000
MAX_TOTAL_POWER_PRODUCTION == 111000
MAX_GRID_IMPORT == 100000
MAX_BOILER_CAPACITY == 200000
STEAM_SAFETY_MARGIN == 105
POWER_SAFETY_MARGIN == 103

GTAS == {1, 2, 3}

\* PhysicsCoefficients.get_gta_coefficients: an unknown index falls back to
\* generator 1 (coefficients.get(gta_number, coefficients[1])).
coefficients ==
    [i \in GTAS |->
        CASE i = 1 -> [coef_a |-> GTA1_COEF_A, coef_s |-> GTA1_COEF_S,
                       intercept |-> GTA1_INTERCEPT]
          [] i = 2 -> [coef_a |-> GTA2_COEF_A, coef_s |-> GTA2_COEF_S,
                       intercept |-> GTA2_INTERCEPT]
          [] i = 3 -> [coef_a |-> GTA3_COEF_A, coef_s |-> GTA3_COEF_S,
                       intercept |-> GTA3_INTERCEPT]]
get_gta_coefficients(gta_number) ==
    IF gta_number \in GTAS THEN coefficients[gta_number] ELSE coefficients[1]

\* get_grid_cost(hour) once hour is a number (the caller's hour, or the
\* clock's when the caller gave None).
\* the peak band an hour late
GridCostAtLatePeak(hour) ==
    IF PEAK_HOURS_START < hour /\ hour < PEAK_HOURS_END
    THEN GRID_PEAK_COST
    ELSE IF STANDARD_HOURS_START <= hour /\ hour < STANDARD_HOURS_END
         THEN GRID_STANDARD_COST
         ELSE GRID_OFF_PEAK_COST
\* the peak band an hour long
GridCostAtLongPeak(hour) ==
    IF PEAK_HOURS_START <= hour /\ hour <= PEAK_HOURS_END
    THEN GRID_PEAK_COST
    ELSE IF STANDARD_HOURS_START <= hour /\ hour < STANDARD_HOURS_END
         THEN GRID_STANDARD_COST
         ELSE GRID_OFF_PEAK_COST
GridCostAt(hour) ==
    IF PEAK_HOURS_START <= hour /\ hour < PEAK_HOURS_END
    THEN GRID_PEAK_COST
    ELSE IF STANDARD_HOURS_START <= hour /\ hour < STANDARD_HOURS_END
         THEN GRID_STANDARD_COST
         ELSE GRID_OFF_PEAK_COST

(***************************************************************************)
(* Python built-ins the optimizer uses                                     *)
(***************************************************************************)
None == "None"

Max(a, b) == IF a >= b THEN a ELSE b
Min(a, b) == IF a <= b THEN a ELSE b

\* round(x / unit) half to even, times unit: Python's round(x, 2) for
\* unit = 10 milli (or 10^5 PU).
RoundTo(x, unit) ==
    LET q == x \div unit
        r == x % unit
    IN  IF 2 * r < unit THEN q * unit
        ELSE IF 2 * r > unit THEN (q + 1) * unit
        ELSE IF q % 2 = 0 THEN q * unit ELSE (q + 1) * unit

Round2(x) == RoundTo(x, 10)
Round2Power(p) == RoundTo(p, 100000)

\* str.upper() on the letters; a string is a sequence of characters.
LowerLetters == <<"a","b","c","d","e","f","g","h","i","j","k","l","m",
                  "n","o","p","q","r","s","t","u","v","w","x","y","z">>
UpperLetters == <<"A","B","C","D","E","F","G","H","I","J","K","L","M",
                  "N","O","P","Q","R","S","T","U","V","W","X","Y","Z">>
UpperChar(c) ==
    IF \E k \in 1..26 : LowerLetters[k] = c
    THEN UpperLetters[CHOOSE k \in 1..26 : LowerLetters[k] = c]
    ELSE c
Upper(s) == [k \in 1..Len(s) |-> UpperChar(s[k])]

OFF == <<"O","F","F">>
MAINTENANCE == <<"M","A","I","N","T","E","N","A","N","C","E">>


\* int -> float parse of a digit string (float("420") = 420.0), in milli;
\* NotANumber for anything float() rejects with ValueError.
Digits == <<"0","1","2","3","4","5","6","7","8","9">>
IsDigit(c) == \E k \in 1..10 : Digits[k] = c
DigitVal(c) == (CHOOSE k \in 1..10 : Digits[k] = c) - 1
RECURSIVE ParseDigits(_, _)
ParseDigits(s, k) ==
    IF k = 0 THEN 0 ELSE 10 * ParseDigits(s, k - 1) + DigitVal(s[k])
IsNumeral(s) == Len(s) > 0 /\ \A k \in 1..Len(s) : IsDigit(s[k])

\* Values a caller can put in the constraints dictionary.
StrVal(chars) == [type |-> "str", chars |-> chars, n |-> 0]
NumVal(n) == [type |-> "num", chars |-> <<>>, n |-> n]
NoneVal == [type |-> "none", chars |-> <<>>, n |-> 0]
\* float('nan'), what pandas holds for a missing cell
NaNVal == [type |-> "nan", chars |-> <<>>, n |-> 0]
\* the float nan as a result: no flow has this value
NaN == -2147483647
\* a + b on floats
FloatAdd(a, b) == IF a = NaN \/ b = NaN THEN NaN ELSE a + b

\* float(value): the number, or the exception float() raises.
FloatRaises(value) ==
    CASE value.type = "num" -> None
      [] value.type = "nan" -> None
      [] value.type = "str" -> IF IsNumeral(value.chars) THEN None ELSE "ValueError"
      [] OTHER -> "TypeError"
FloatOf(value) ==
    IF value.type = "num" THEN value.n
    ELSE IF value.type = "nan" THEN NaN
         ELSE 1000 * ParseDigits(value.chars, Len(value.chars))

(***************************************************************************)
(* The linear program of optimize (optimizer.py 369-495)                   *)
(***************************************************************************)
\* A point of the LP: a value for each decision variable, in milli.
Point(a, s, fb, e, fs) ==
    [A |-> a, S |-> s, F_boiler |-> fb, E_grid |-> e, F_sulfur |-> fs]

\* A named constraint of the problem (prob += ..., "name").
Con(name, i, rhs) == [name |-> name, i |-> i, rhs |-> rhs]

\* coef_a * A[i] + coef_s * S[i] + intercept, in PU
GtaPowerExpr(i, x) ==
    LET coef == get_gta_coefficients(i)
    IN  coef.coef_a * x.A[i] + coef.coef_s * x.S[i] + coef.intercept * 100000

total_gta_power(x) == GtaPowerExpr(1, x) + GtaPowerExpr(2, x) + GtaPowerExpr(3, x)

total_steam(x) == x.S[1] + x.S[2] + x.S[3] + x.F_boiler + x.F_sulfur

\* elec_demand * SYSTEM.POWER_SAFETY_MARGIN, in 1/100000 MW
ElecRequiredNeg(elec_demand) == (0 - elec_demand) * POWER_SAFETY_MARGIN
ElecRequiredNoMargin(elec_demand) == elec_demand * 100
ElecRequired(elec_demand) == elec_demand * POWER_SAFETY_MARGIN
\* steam_demand * SYSTEM.STEAM_SAFETY_MARGIN, in 1/100000 T/hr
SteamRequired(steam_demand) == steam_demand * STEAM_SAFETY_MARGIN

\* Whether point x satisfies constraint c.
Holds(c, x) ==
    CASE c.name = "Soutirage_Limit_GTA" -> x.S[c.i] <= x.A[c.i]
      [] c.name = "Electricity_Demand" ->
            total_gta_power(x) - c.rhs * 100 >= 0 - x.E_grid * 10000
      [] c.name = "Steam_Demand" -> total_steam(x) * 100 >= c.rhs
      [] c.name = "GTA_Offline" -> x.A[c.i] = 0
      [] c.name = "GTA_Offline_Steam" -> x.S[c.i] = 0
      [] c.name = "GTA_Maintenance" -> x.A[c.i] <= c.rhs
      [] c.name = "Client_CAP_Steam" -> total_steam(x) >= c.rhs
      [] c.name = "Max_Grid_Import_Override" -> x.E_grid <= c.rhs
      [] c.name = "Sulfur_Recovery_Limit" -> x.F_sulfur <= c.rhs
      [] OTHER -> TRUE

\* Constraint: Soutirage cannot exceed Admission for each GTA
NoPhysicsConstraints == {}
PhysicsConstraints == {Con("Soutirage_Limit_GTA", i, 0) : i \in GTAS}

DemandConstraints(elec_demand, steam_demand) ==
    {Con("Electricity_Demand", 0, ElecRequired(elec_demand)),
     Con("Steam_Demand", 0, SteamRequired(steam_demand))}

\* The problem before the business constraints: variable bounds (the
\* LpVariable lowBound/upBound) and the physics and demand constraints.
BaseProblem(elec_demand, steam_demand, max_sulfur) ==
    [lo_A |-> MIN_ADMISSION, up_A |-> MAX_ADMISSION,
     lo_S |-> MIN_SOUTIRAGE, up_S |-> MAX_SOUTIRAGE,
     up_boiler |-> MAX_BOILER_CAPACITY,
     up_grid |-> MAX_GRID_IMPORT,
     up_sulfur |-> max_sulfur,
     cons |-> PhysicsConstraints \cup DemandConstraints(elec_demand, steam_demand),
     grid_cost |-> 0]

\* One (key, value) item of the business constraints (the if/elif chain of
\* lines 438-477): the exception it raises (None when it raises none) and
\* the constraints it adds.  value.upper() is evaluated only for the
\* gtaN_status keys, float(value) only for the three numeric keys.
Applied(raised, add) == [raised |-> raised, add |-> add]

StatusKey(key) ==
    CASE key = "gta1_status" -> 1
      [] key = "gta2_status" -> 2
      [] key = "gta3_status" -> 3
      [] OTHER -> 0

MaintenanceLimit == (MAX_ADMISSION * 5) \div 10

ApplyStatusCaseSensitive(i, value) ==
    IF value.type # "str" THEN Applied("AttributeError", {})
    ELSE IF value.chars = OFF
         THEN Applied(None, {Con("GTA_Offline", i, 0), Con("GTA_Offline_Steam", i, 0)})
         ELSE IF value.chars = MAINTENANCE
              THEN Applied(None, {Con("GTA_Maintenance", i, MaintenanceLimit)})
              ELSE Applied(None, {})

ApplyStatusIgnoringMaintenance(i, value) ==
    IF value.type # "str" THEN Applied("AttributeError", {})
    ELSE IF Upper(value.chars) = OFF
         THEN Applied(None, {Con("GTA_Offline", i, 0), Con("GTA_Offline_Steam", i, 0)})
         ELSE Applied(None, {})

ApplyStatus(i, value) ==
    IF value.type # "str" THEN Applied("AttributeError", {})
    ELSE IF Upper(value.chars) = OFF
         THEN Applied(None, {Con("GTA_Offline", i, 0), Con("GTA_Offline_Steam", i, 0)})
         ELSE IF Upper(value.chars) = MAINTENANCE
              THEN Applied(None, {Con("GTA_Maintenance", i, MaintenanceLimit)})
              ELSE Applied(None, {})

ApplyNumeric(name, value) ==
    IF FloatRaises(value) # None THEN Applied(FloatRaises(value), {})
    ELSE Applied(None, {Con(name, 0, FloatOf(value))})

\* min_gta_count read as a number
ApplyItemReadingCount(key, value) ==
    CASE StatusKey(key) # 0 -> ApplyStatus(StatusKey(key), value)
      [] key = "cap_steam" -> ApplyNumeric("Client_CAP_Steam", value)
      [] key = "min_gta_count" -> Applied(FloatRaises(value), {})
      [] key = "max_grid_import" -> ApplyNumeric("Max_Grid_Import_Override", value)
      [] key = "sulfur_max" -> ApplyNumeric("Sulfur_Recovery_Limit", value)
      [] OTHER -> Applied(None, {})
ApplyItem(key, value) ==
    CASE StatusKey(key) # 0 -> ApplyStatus(StatusKey(key), value)
      [] key = "cap_steam" -> ApplyNumeric("Client_CAP_Steam", value)
      [] key = "min_gta_count" -> Applied(None, {})
      [] key = "max_grid_import" -> ApplyNumeric("Max_Grid_Import_Override", value)
      [] key = "sulfur_max" -> ApplyNumeric("Sulfur_Recovery_Limit", value)
      [] OTHER -> Applied(None, {})

\* for key, value in constraints.items(): the items in dictionary order,
\* stopping at the first exception.
RECURSIVE ApplyItems(_, _)
ApplyItems(items, k) ==
    IF k > Len(items) THEN Applied(None, {})
    ELSE LET one == ApplyItem(items[k][1], items[k][2])
         IN  IF one.raised # None THEN one
             ELSE LET rest == ApplyItems(items, k + 1)
                  IN  Applied(rest.raised, one.add \cup rest.add)

\* "if constraints:" - None and the empty dictionary add nothing.  An
\* optional argument is a sequence: <<>> for None, <<v>> for the value v.
BusinessConstraints(constraints) ==
    IF constraints = <<>> THEN Applied(None, {})
    ELSE ApplyItems(constraints[1], 1)

\* get_grid_cost(hour): the clock's hour when the caller gave none.
get_grid_cost(hour, now) == GridCostAt(IF hour = <<>> THEN now ELSE hour[1])

\* total_cost, the objective, at point x: DH/hr in 1/1000.
Objective(grid_cost, x) ==
      x.E_grid * grid_cost
    + x.F_boiler * BOILER_COST
    + x.F_sulfur * SULFURIC_HEAT_COST
    + (x.A[1] + x.A[2] + x.A[3]) * GTA_FUEL_COST

(***************************************************************************)
(* prob.solve(PULP_CBC_CMD): the solver is a library.  Its contract: the   *)
(* status is Optimal exactly when some point satisfies the bounds and the  *)
(* constraints, and then the values are those of a point of least          *)
(* objective.  The reals are sampled on a grid of GridLevels steps between *)
(* each variable's bounds; which of several least-cost points comes back   *)
(* is the solver's choice.                                                 *)
(***************************************************************************)
GridLevels == 3

Grid(lo, up) ==
    IF up < lo THEN {}
    ELSE {lo + (k * (up - lo)) \div GridLevels : k \in 0..GridLevels}

\* The extractions sampled: the grid, and the least extraction with which
\* one generator alone covers the Steam_Demand requirement (within the
\* bounds), where that constraint is tight: a vertex of the feasible region.
ExtractionLevels(prob) ==
    IF prob.up_S < prob.lo_S THEN {}
    ELSE Grid(prob.lo_S, prob.up_S)
         \cup {Max(prob.lo_S, Min(prob.up_S, (c.rhs + 99) \div 100)) :
                  c \in {d \in prob.cons : d.name = "Steam_Demand"}}

\* The (admission, extraction) pairs of generator i on the grid that meet
\* the constraints naming generator i alone.
GenPairs(prob, i) ==
    {g \in Grid(prob.lo_A, prob.up_A) \X ExtractionLevels(prob) :
        \A c \in prob.cons :
            c.i = i => Holds(c, Point([j \in GTAS |-> g[1]], [j \in GTAS |-> g[2]], 0, 0, 0))}

\* Every constraint either names one generator (GenPairs), or involves
\* E_grid besides the generators, or involves F_boiler and F_sulfur besides
\* the generators.
GridConstraintNames == {"Electricity_Demand", "Max_Grid_Import_Override"}
GridConstraints(prob) ==
    {c \in prob.cons : c.i = 0 /\ c.name \in GridConstraintNames}
SteamConstraints(prob) ==
    {c \in prob.cons : c.i = 0 /\ c.name \notin GridConstraintNames}

SetMin(S) == CHOOSE m \in S : \A v \in S : m <= v

\* The least-cost boiler and sulfur steam for generators extracting sigma
\* in total: the steam constraints read the extractions through their sum
\* alone.  fs is empty when sigma cannot be completed.
SteamCompletion(prob, scons, sigma) ==
    LET fs == {f \in Grid(0, prob.up_boiler) \X Grid(0, prob.up_sulfur) :
                  \A c \in scons :
                      Holds(c, Point(<<0, 0, 0>>, <<sigma, 0, 0>>, f[1], 0, f[2]))}
        cost(f) == Objective(prob.grid_cost, Point(<<0, 0, 0>>, <<0, 0, 0>>, f[1], 0, f[2]))
    IN  IF fs = {} THEN [cost |-> 0, fs |-> {}]
        ELSE LET fcost == SetMin({cost(f) : f \in fs})
             IN  [cost |-> fcost, fs |-> {f \in fs : cost(f) = fcost}]

\* The least-cost completions of generator values a, s under the grid
\* constraints gcons, given the least-cost steam completion steam: the
\* objective is a sum of one term per variable, so the grid import and the
\* steam sources are minimised apart.  feasible is FALSE when a, s cannot
\* be completed.
Completion(prob, gcons, steam, a, s) ==
    LET es == {e \in Grid(0, prob.up_grid) :
                  \A c \in gcons : Holds(c, Point(a, s, 0, e, 0))}
    IN  IF es = {} \/ steam.fs = {}
        THEN [feasible |-> FALSE, A |-> a, S |-> s, cost |-> 0, es |-> {}, fs |-> {}]
        ELSE LET emin == SetMin(es)
             IN  [feasible |-> TRUE, A |-> a, S |-> s,
                  cost |-> Objective(prob.grid_cost, Point(a, s, 0, emin, 0)) + steam.cost,
                  es |-> IF prob.grid_cost = 0 THEN es ELSE {emin},
                  fs |-> steam.fs]

\* The points the solver may return: the feasible grid points of least
\* objective; empty when the problem is infeasible.
OptimalPoints(prob) ==
    LET gcons == GridConstraints(prob)
        scons == SteamConstraints(prob)
        S0 == ExtractionLevels(prob)
        table == {<<sigma, SteamCompletion(prob, scons, sigma)>> :
                     sigma \in {s[1] + s[2] + s[3] : s \in S0 \X S0 \X S0}}
        steam(sigma) == (CHOOSE p \in table : p[1] = sigma)[2]
        done == {Completion(prob, gcons, steam(g1[2] + g2[2] + g3[2]),
                            <<g1[1], g2[1], g3[1]>>, <<g1[2], g2[2], g3[2]>>) :
                    g1 \in GenPairs(prob, 1), g2 \in GenPairs(prob, 2),
                    g3 \in GenPairs(prob, 3)}
        F == {r \in done : r.feasible}
    IN  IF F = {} THEN {}
        ELSE LET best == SetMin({r.cost : r \in F})
             IN  UNION {{Point(r.A, r.S, f[1], e, f[2]) : e \in r.es, f \in r.fs} :
                            r \in {q \in F : q.cost = best}}

ZeroPoint == Point(<<0, 0, 0>>, <<0, 0, 0>>, 0, 0, 0)

\* pulp.LpStatus values for a problem with no solution to report.  Every
\* variable is bounded, so Unbounded cannot occur.
NonOptimalStatuses == {"Infeasible", "Undefined"}

Solved(status, x) == [status |-> status, x |-> x]

SolverOutcomes(prob) ==
    LET opt == OptimalPoints(prob)
    IN  IF opt = {} THEN {Solved(st, ZeroPoint) : st \in NonOptimalStatuses}
        ELSE {Solved("Optimal", x) : x \in opt}

(***************************************************************************)
(* EnergyOptimizer.calculate_sulfur_steam (optimizer.py 50-88)             *)
(***************************************************************************)
LowerChar(c) ==
    IF \E k \in 1..26 : UpperLetters[k] = c
    THEN LowerLetters[CHOOSE k \in 1..26 : UpperLetters[k] = c]
    ELSE c
Lower(s) == [k \in 1..Len(s) |-> LowerChar(s[k])]

\* sub in s
Contains(s, sub) ==
    \E k \in 0..(Len(s) - Len(sub)) : \A j \in 1..Len(sub) : s[k + j] = sub[j]

SOUFRE == <<"s","o","u","f","r","e">>
SULFUR == <<"s","u","l","f","u","r">>
CONFIGURE == <<"c","o","n","f","i","g","u","r","e">>

\* the fallback, 50.0 T/hr
SULFUR_FALLBACK == 50000

\* A dataset: the column names and the rows; a row is its Date and one
\* cell per column.
sulfur_columns(data) ==
    {k \in 1..Len(data.columns) :
        Contains(Lower(data.columns[k]), SOUFRE) \/ Contains(Lower(data.columns[k]), SULFUR)}

\* the value float(val) adds for one cell, after the "Configure" test
CellRaises(val) ==
    IF val.type = "str" /\ Lower(val.chars) = CONFIGURE THEN None ELSE FloatRaises(val)
CellValue(val) ==
    IF val.type = "str" /\ Lower(val.chars) = CONFIGURE THEN 0 ELSE FloatOf(val)

RECURSIVE SumCells(_, _, _)
SumCells(cells, cols, k) ==
    IF k = 0 THEN 0
    ELSE FloatAdd(SumCells(cells, cols, k - 1),
                  IF k \in cols THEN CellValue(cells[k]) ELSE 0)

\* The row the query selects: <<>> when .iloc raises IndexError.
SelectedRow(data, timestamp) ==
    IF timestamp = <<>>
    THEN IF Len(data.rows) = 0 THEN <<>> ELSE <<data.rows[Len(data.rows)]>>
    ELSE LET hits == {k \in 1..Len(data.rows) : data.rows[k].Date = timestamp[1]}
         IN  IF hits = {} THEN <<>>
             ELSE <<data.rows[CHOOSE k \in hits : \A j \in hits : k <= j]>>

\* a cell float() cannot read answered with 0 instead of the fallback
calculate_sulfur_steam_reading_on(data, timestamp) ==
    IF data = <<>> THEN SULFUR_FALLBACK
    ELSE LET row == SelectedRow(data[1], timestamp)
             cols == sulfur_columns(data[1])
         IN  IF row = <<>> THEN SULFUR_FALLBACK
             ELSE IF \E k \in cols : CellRaises(row[1].cells[k]) # None
                  THEN 0
                  ELSE SumCells(row[1].cells, cols, Len(row[1].cells))
calculate_sulfur_steam(data, timestamp) ==
    IF data = <<>> THEN SULFUR_FALLBACK
    ELSE LET row == SelectedRow(data[1], timestamp)
             cols == sulfur_columns(data[1])
         IN  IF row = <<>> THEN SULFUR_FALLBACK
             ELSE IF \E k \in cols : CellRaises(row[1].cells[k]) # None
                  THEN SULFUR_FALLBACK
                  ELSE SumCells(row[1].cells, cols, Len(row[1].cells))

(***************************************************************************)
(* EnergyOptimizer.predict_gta_power (optimizer.py 90-110), in PU          *)
(***************************************************************************)
predict_gta_power_unfloored(admission, soutirage, gta_number) ==
    LET coef == get_gta_coefficients(gta_number)
    IN  coef.coef_a * admission + coef.coef_s * soutirage + coef.intercept * 100000
predict_gta_power(admission, soutirage, gta_number) ==
    LET coef == get_gta_coefficients(gta_number)
        power == coef.coef_a * admission + coef.coef_s * soutirage
                 + coef.intercept * 100000
    IN  Max(0, power)

(***************************************************************************)
(* EnergyOptimizer._generate_recommendations (optimizer.py 112-329)        *)
(* A recommendation is its title (with the generator it names, 0 for       *)
(* none), its priority and whether it carries a safety_check.              *)
(***************************************************************************)
Rec(title, gta, priority, safety) ==
    [title |-> title, gta |-> gta, priority |-> priority, safety_check |-> safety]

\* (hour or 14): None and 0 are both falsy
HourOr14(hour) == IF hour = <<>> \/ hour[1] = 0 THEN 14 ELSE hour[1]

IsPeak(hour) == 17 <= HourOr14(hour) /\ HourOr14(hour) < 22

Period(hour) ==
    IF 17 <= HourOr14(hour) /\ HourOr14(hour) < 22 THEN "Peak"
    ELSE IF 7 <= HourOr14(hour) /\ HourOr14(hour) < 17 THEN "Standard"
         ELSE "Off-Peak"

\* PRIORITY 1: savings > 100
SavingsRule(savings) ==
    IF savings > 100000
    THEN <<Rec("Optimization Savings Identified", 0, "high", FALSE)>>
    ELSE <<>>

\* BRANCH 1, for one generator
GtaRule(gta) ==
    IF gta.power > 1000000 /\ gta.admission > 175000
    THEN <<Rec("Push GTA to Capacity", gta.gta_number, "high", TRUE)>>
    ELSE IF gta.power > 1000000 /\ gta.admission > 1000
         THEN <<Rec("Adjust GTA Setpoint", gta.gta_number, "medium", FALSE)>>
         ELSE <<>>

RECURSIVE GtaRules(_, _)
GtaRules(gtas, k) ==
    IF k > Len(gtas) THEN <<>> ELSE GtaRule(gtas[k]) \o GtaRules(gtas, k + 1)

\* BRANCH 2
BoilerRule(baseline_boiler, boiler_output) ==
    IF baseline_boiler > 10000 /\ boiler_output < 1000
    THEN <<Rec("Shutdown Auxiliary Boiler", 0, "high", TRUE)>>
    ELSE IF boiler_output > 10000
         THEN <<Rec("Expensive Steam Source Active", 0, "medium", FALSE)>>
         ELSE <<>>

\* BRANCH 3
PeakRule(is_peak, grid_import) ==
    IF is_peak /\ grid_import > 10000
    THEN <<Rec("Peak Tariff Alert (1.271 DH/kWh)", 0, "high", TRUE)>>
    ELSE IF is_peak /\ grid_import < 10000
         THEN <<Rec("Peak Shaving Successful", 0, "low", FALSE)>>
         ELSE <<>>

\* BRANCH 4
GridRule(baseline_grid, grid_import) ==
    IF baseline_grid - grid_import > 5000
    THEN <<Rec("Grid Import Optimized", 0, "medium", FALSE)>>
    ELSE IF grid_import > 90000
         THEN <<Rec("Grid Capacity Warning", 0, "high", TRUE)>>
         ELSE <<>>

RECURSIVE SumSoutirage(_, _)
SumSoutirage(gtas, k) ==
    IF k = 0 THEN 0 ELSE gtas[k].soutirage + SumSoutirage(gtas, k - 1)

RECURSIVE SumPower(_, _)
SumPower(gtas, k) ==
    IF k = 0 THEN 0 ELSE gtas[k].power + SumPower(gtas, k - 1)

\* BRANCH 5: estimated_pressure = 7 + 2 * total_steam / steam_demand
\* against 8.5, that is total_steam / steam_demand against 3/4; the ratio
\* is 1 when steam_demand <= 0.
PressureBelow(total, steam_demand) ==
    steam_demand > 0 /\ 4 * total < 3 * steam_demand
PressureAbove(total, steam_demand) ==
    steam_demand <= 0 \/ 4 * total > 3 * steam_demand

PressureRule(gtas, boiler_output, sulfur_steam_used, steam_demand) ==
    LET total == sulfur_steam_used + SumSoutirage(gtas, Len(gtas)) + boiler_output
    IN  IF PressureBelow(total, steam_demand)
        THEN <<Rec("MP Pressure Risk", 0, "high", TRUE)>>
        ELSE IF PressureAbove(total, steam_demand)
             THEN <<Rec("Process Reliability: Stable", 0, "low", FALSE)>>
             ELSE <<>>

\* BRANCH 6
SulfurRule(sulfur_steam_used) ==
    IF sulfur_steam_used > 70000
    THEN <<Rec("Free Steam Maximized", 0, "low", FALSE)>>
    ELSE <<>>

\* BRANCH 7
NoGtaRule(gtas) ==
    IF \A k \in 1..Len(gtas) : ~(gtas[k].power > 10000000)
    THEN <<Rec("No GTAs Running", 0, "high", TRUE)>>
    ELSE <<>>

PowerCapacityRule(elec_demand) ==
    IF elec_demand > MAX_TOTAL_POWER_PRODUCTION
    THEN <<Rec("Demand Exceeds Plant Capacity", 0, "high", TRUE)>>
    ELSE <<>>

SteamCapacityRule(steam_demand) ==
    IF steam_demand > MAX_TOTAL_STEAM_PRODUCTION
    THEN <<Rec("Steam Demand Infeasible", 0, "high", FALSE)>>
    ELSE <<>>

\* BRANCH 8
OffPeakRule(hour) ==
    IF HourOr14(hour) >= 22 \/ HourOr14(hour) < 7
    THEN <<Rec("Off-Peak Advantage Active", 0, "low", FALSE)>>
    ELSE <<>>

RECURSIVE WithPriority(_, _)
WithPriority(recs, priority) ==
    IF recs = <<>> THEN <<>>
    ELSE (IF Head(recs).priority = priority THEN <<Head(recs)>> ELSE <<>>)
         \o WithPriority(Tail(recs), priority)

\* the rules' output re-sorted by priority, high first
generate_recommendations_by_priority(gtas, grid_import, boiler_output, sulfur_steam_used, baseline_grid, baseline_boiler, savings, elec_demand, steam_demand, hour) ==
    LET recs ==
               SavingsRule(savings)
            \o GtaRules(gtas, 1)
            \o BoilerRule(baseline_boiler, boiler_output)
            \o PeakRule(IsPeak(hour), grid_import)
            \o GridRule(baseline_grid, grid_import)
            \o PressureRule(gtas, boiler_output, sulfur_steam_used, steam_demand)
            \o SulfurRule(sulfur_steam_used)
            \o NoGtaRule(gtas)
            \o PowerCapacityRule(elec_demand)
            \o SteamCapacityRule(steam_demand)
            \o OffPeakRule(hour)
    IN  WithPriority(recs, "high") \o WithPriority(recs, "medium")
        \o WithPriority(recs, "low")

generate_recommendations(gtas, grid_import, boiler_output, sulfur_steam_used, baseline_grid, baseline_boiler, savings, elec_demand, steam_demand, hour) ==
       SavingsRule(savings)
    \o GtaRules(gtas, 1)
    \o BoilerRule(baseline_boiler, boiler_output)
    \o PeakRule(IsPeak(hour), grid_import)
    \o GridRule(baseline_grid, grid_import)
    \o PressureRule(gtas, boiler_output, sulfur_steam_used, steam_demand)
    \o SulfurRule(sulfur_steam_used)
    \o NoGtaRule(gtas)
    \o PowerCapacityRule(elec_demand)
    \o SteamCapacityRule(steam_demand)
    \o OffPeakRule(hour)

(***************************************************************************)
(* The result of optimize (optimizer.py 506-619).  A dictionary is a       *)
(* record with every field, "keys" naming the keys it really has.          *)
(***************************************************************************)
\* float('inf')
Infinity == 2147483647

CostBreakdown(keys, grid, boiler, sulfur, gta_fuel) ==
    [keys |-> keys, grid |-> grid, boiler |-> boiler, sulfur |-> sulfur,
     gta_fuel |-> gta_fuel]

NoBaseline == [grid_import |-> 0, boiler_output |-> 0, gta_load_percent |-> 0]
NoDemands == [electricity |-> 0, steam |-> 0]

\* the dictionary returned when status != "Optimal" (lines 513-525)
NotOptimalKeys ==
    {"status", "error", "gtas", "grid_import", "boiler_output", "sulfur_steam",
     "total_cost", "cost_breakdown", "baseline_cost", "savings"}

NotOptimalResultDroppingStatus(status, max_sulfur) ==
    [keys |-> NotOptimalKeys,
     status |-> "Infeasible",
     gtas |-> <<>>,
     grid_import |-> 0,
     boiler_output |-> 0,
     sulfur_steam |-> 0,
     total_cost |-> Infinity,
     cost_breakdown |-> CostBreakdown({}, 0, 0, 0, 0),
     baseline_cost |-> 0,
     baseline |-> NoBaseline,
     savings |-> 0,
     demands |-> NoDemands,
     constraints_applied |-> <<>>,
     recommendations |-> <<>>]

NotOptimalResult(status, max_sulfur) ==
    [keys |-> NotOptimalKeys,
     status |-> status,
     gtas |-> <<>>,
     grid_import |-> 0,
     boiler_output |-> 0,
     sulfur_steam |-> max_sulfur,
     total_cost |-> Infinity,
     cost_breakdown |-> CostBreakdown({}, 0, 0, 0, 0),
     baseline_cost |-> 0,
     baseline |-> NoBaseline,
     savings |-> 0,
     demands |-> NoDemands,
     constraints_applied |-> <<>>,
     recommendations |-> <<>>]

\* one entry of gtas (lines 529-539)
ExtractGta(i, x) ==
    [gta_number |-> i,
     admission |-> Round2(x.A[i]),
     soutirage |-> Round2(x.S[i]),
     power |-> Round2Power(predict_gta_power(x.A[i], x.S[i], i))]

ExtractGtas(x) == <<ExtractGta(1, x), ExtractGta(2, x), ExtractGta(3, x)>>

\* baseline (lines 554-563): every generator at 50% of MAX_ADMISSION
BaselineAdmission == (MAX_ADMISSION * 5) \div 10
baseline_gta_admission == BaselineAdmission * 3
\* in PU; 72.313 MW, a whole number of milli
baseline_gta_power ==
      get_gta_coefficients(1).coef_a * BaselineAdmission
    + get_gta_coefficients(1).intercept * 100000
    + get_gta_coefficients(2).coef_a * BaselineAdmission
    + get_gta_coefficients(2).intercept * 100000
    + get_gta_coefficients(3).coef_a * BaselineAdmission
    + get_gta_coefficients(3).intercept * 100000
baseline_grid_import(elec_demand) ==
    Max(0, elec_demand - baseline_gta_power \div 10000)
\* 30% of the baseline admission is assumed extracted
baseline_boiler_steam(steam_demand, max_sulfur) ==
    Max(0, steam_demand - max_sulfur - (baseline_gta_admission * 3) \div 10)
BaselineCost(elec_demand, steam_demand, max_sulfur, grid_cost) ==
      baseline_grid_import(elec_demand) * grid_cost
    + baseline_boiler_steam(steam_demand, max_sulfur) * BOILER_COST
    + max_sulfur * SULFURIC_HEAT_COST
    + baseline_gta_admission * GTA_FUEL_COST

\* line 570, never clamped
SavingsClamped(baseline_cost, total_cost_value) == Max(0, baseline_cost - total_cost_value)
Savings(baseline_cost, total_cost_value) == baseline_cost - total_cost_value

OptimalKeys ==
    {"gtas", "grid_import", "boiler_output", "sulfur_steam", "total_cost",
     "cost_breakdown", "status", "baseline_cost", "baseline", "savings",
     "demands", "constraints_applied", "recommendations"}

\* the dictionary stored in last_solution (lines 527-614)
OptimalResult(a, max_sulfur, grid_cost, status, x) ==
    LET gtas == ExtractGtas(x)
        grid_import == x.E_grid
        boiler_output == x.F_boiler
        sulfur_steam_used == x.F_sulfur
        actual_cost_grid == grid_import * grid_cost
        actual_cost_boiler == boiler_output * BOILER_COST
        actual_cost_sulfur == sulfur_steam_used * SULFURIC_HEAT_COST
        actual_cost_gta ==
            (gtas[1].admission + gtas[2].admission + gtas[3].admission) * GTA_FUEL_COST
        total_cost_value ==
            actual_cost_grid + actual_cost_boiler + actual_cost_sulfur + actual_cost_gta
        b_grid == baseline_grid_import(a.elec_demand)
        b_boiler == baseline_boiler_steam(a.steam_demand, max_sulfur)
        baseline_cost == BaselineCost(a.elec_demand, a.steam_demand, max_sulfur, grid_cost)
        savings == Savings(baseline_cost, total_cost_value)
    IN  [keys |-> OptimalKeys,
         status |-> status,
         gtas |-> gtas,
         grid_import |-> Round2(grid_import),
         boiler_output |-> Round2(boiler_output),
         sulfur_steam |-> Round2(sulfur_steam_used),
         total_cost |-> Round2(total_cost_value),
         cost_breakdown |->
             CostBreakdown({"grid", "boiler", "sulfur", "gta_fuel"},
                           Round2(actual_cost_grid), Round2(actual_cost_boiler),
                           Round2(actual_cost_sulfur), Round2(actual_cost_gta)),
         baseline_cost |-> Round2(baseline_cost),
         baseline |-> [grid_import |-> Round2(b_grid),
                       boiler_output |-> Round2(b_boiler),
                       gta_load_percent |-> 50],
         savings |-> Round2(savings),
         demands |-> [electricity |-> a.elec_demand, steam |-> a.steam_demand],
         constraints_applied |-> IF a.constraints = <<>> THEN <<>> ELSE a.constraints[1],
         recommendations |->
             generate_recommendations(gtas, grid_import, boiler_output,
                 sulfur_steam_used, b_grid, b_boiler, savings,
                 a.elec_demand, a.steam_demand, a.hour)]

(***************************************************************************)
(* The callers' inputs                                                     *)
(***************************************************************************)
MaxThreads == 2
MaxCalls == 2

Threads == 1..MaxThreads

Args(elec_demand, steam_demand, constraints, hour, verbose) ==
    [elec_demand |-> elec_demand, steam_demand |-> steam_demand,
     constraints |-> constraints, hour |-> hour, verbose |-> verbose]

\* a dictionary with the given items; <<>> alone is None
Dict(items) == <<items>>

\* a steam demand of 0.003 T/hr
SmallSteamDemand == 3
ElecDemands == {0, 60000, 78730, 120000}
SteamDemands == {0, 400000, 610000}
Hours == {<<>>, <<0>>, <<14>>, <<19>>}
\* the hours datetime.now().hour is sampled at
ClockHours == {3, 20}
\* the first, a middle and the last hour of the peak band
PeakHours == {17, 19, 21}

StatusSpellings ==
    {OFF, <<"o","f","f">>, <<"O","f","f">>, MAINTENANCE,
     <<"m","a","i","n","t","e","n","a","n","c","e">>, <<"O","N">>}

AllOff ==
    <<<<"gta1_status", StrVal(OFF)>>, <<"gta2_status", StrVal(<<"o","f","f">>)>>,
      <<"gta3_status", StrVal(<<"O","f","f">>)>>>>

ConstraintSets ==
    {<<>>, Dict(<<>>)}
    \cup {Dict(<<<<k, StrVal(v)>>>>) :
            k \in {"gta1_status", "gta2_status", "gta3_status"}, v \in StatusSpellings}
    \cup {Dict(<<<<"cap_steam", NumVal(460000)>>>>),
          Dict(<<<<"cap_steam", StrVal(<<"4","6","0">>)>>>>),
          Dict(<<<<"cap_steam", StrVal(<<"a","b","c">>)>>>>),
          Dict(<<<<"cap_steam", NoneVal>>>>),
          Dict(<<<<"gta1_status", NumVal(1000)>>>>),
          Dict(<<<<"min_gta_count", NumVal(2000)>>>>),
          Dict(<<<<"operator", StrVal(<<"x">>)>>>>),
          Dict(<<<<"min_gta_count", NoneVal>>>>),
          Dict(<<<<"gta1_status", StrVal(OFF)>>, <<"min_gta_count", StrVal(<<"x">>)>>>>),
          Dict(<<<<"operator", NumVal(1000)>>, <<"max_grid_import", NumVal(50000)>>>>),
          Dict(<<<<"max_grid_import", NumVal(50000)>>>>),
          Dict(<<<<"max_grid_import", NumVal(150000)>>>>),
          Dict(<<<<"sulfur_max", NumVal(25000)>>>>),
          Dict(<<<<"sulfur_max", NumVal(80000)>>>>),
          Dict(AllOff),
          Dict(AllOff \o <<<<"max_grid_import", NumVal(150000)>>>>),
          Dict(<<<<"gta2_status", StrVal(MAINTENANCE)>>, <<"sulfur_max", NumVal(25000)>>>>)}

\* a sulfur recovery dataset: two flow columns, the last row sums to 80 T/hr
PlantData ==
    [columns |-> << <<"D","a","t","e">>,
                    <<"D","e","b","i","t"," ","S","o","u","f","r","e">>,
                    <<"S","U","L","F","U","R","_","2">>,
                    <<"P","r","e","s","s","i","o","n">> >>,
     rows |-> << [Date |-> 1, cells |-> <<NumVal(1000), NumVal(30000),
                                          NumVal(10000), NumVal(9000)>>],
                 [Date |-> 2, cells |-> <<NumVal(2000), NumVal(55000),
                                          StrVal(<<"C","o","n","f","i","g","u","r","e">>),
                                          NumVal(9000)>>],
                 [Date |-> 3, cells |-> <<NumVal(3000), NumVal(50000),
                                          NumVal(30000), NumVal(9000)>>] >>]

SulfurDataSets == {<<>>, <<PlantData>>}

\* one call, over all the inputs
CallInputs ==
    {Args(e, s, c, <<14>>, FALSE) : e \in {60000, 120000}, s \in {0, 400000},
                                    c \in ConstraintSets}
    \cup {Args(e, s, <<>>, h, v) : e \in ElecDemands, s \in SteamDemands,
                                   h \in Hours, v \in BOOLEAN}
    \cup {Args(e, 0, Dict(AllOff), <<h>>, FALSE) : e \in {0, 60000}, h \in PeakHours}
    \cup {Args(-10000, 0, <<>>, <<14>>, FALSE), Args(60000, -5000, <<>>, <<14>>, FALSE)}
    \cup {Args(60000, SmallSteamDemand, Dict(<<<<"sulfur_max", NumVal(0)>>>>), <<14>>, FALSE)}

\* calls one after the other on one instance
SeqInputs ==
    {Args(e, s, <<>>, <<14>>, FALSE) : e \in {20000, 25000}, s \in {0, 610000}}
    \cup {Args(20000, 0, <<>>, <<19>>, TRUE)}

\* calls of concurrent threads
ConcInputs ==
    {Args(60000, 0, <<>>, <<14>>, TRUE), Args(120000, 0, <<>>, <<14>>, TRUE),
     Args(60000, 610000, <<>>, <<14>>, FALSE)}

(***************************************************************************)
(* The state: one EnergyOptimizer instance and the threads calling its     *)
(* optimize method.                                                        *)
(***************************************************************************)
VARIABLES
    sulfur_data,    \* self.sulfur_data: <<>> (None) or <<dataset>>
    last_solution,  \* self.last_solution: <<>> (None) or <<dictionary>>
    pc,             \* where each thread is in optimize
    args,           \* the arguments of each thread's call
    local,          \* its local variables: max_sulfur, prob, status, the values
    printed,        \* what print_solution printed for it: <<>> or <<dictionary>>
    ret,            \* what its call returned: <<>> or <<dictionary>>
    raised,         \* the exception its call raised, None for none
    history,        \* the completed calls, oldest first
    asked,          \* the helper method called directly last, with its arguments
    answer          \* what that call returned or raised

vars ==
    <<sulfur_data, last_solution, pc, args, local, printed, ret, raised, history,
      asked, answer>>

NoArgs == Args(0, 0, <<>>, <<>>, FALSE)
NoLocal ==
    [max_sulfur |-> 0, prob |-> BaseProblem(0, 0, 0), status |-> None, x |-> ZeroPoint]

Completed(a, r, exc) == [args |-> a, ret |-> r, raised |-> exc]

\* EnergyOptimizer.__init__ (lines 39-48), no call made yet
NoCallYet ==
    /\ last_solution = <<>>
    /\ pc = [t \in Threads |-> "idle"]
    /\ args = [t \in Threads |-> NoArgs]
    /\ local = [t \in Threads |-> NoLocal]
    /\ printed = [t \in Threads |-> <<>>]
    /\ ret = [t \in Threads |-> <<>>]
    /\ raised = [t \in Threads |-> None]
    /\ history = <<>>
    /\ asked = <<>>
    /\ answer = <<>>
Init == sulfur_data \in SulfurDataSets /\ NoCallYet

Active == {t \in Threads : pc[t] \notin {"idle", "done", "raised"}}

\* thread t calls optimize(a)
Call(t, a) ==
    /\ pc[t] \in {"idle", "done", "raised"}
    /\ Len(history) + Cardinality(Active) < MaxCalls
    /\ pc' = [pc EXCEPT ![t] = "called"]
    /\ args' = [args EXCEPT ![t] = a]
    /\ local' = [local EXCEPT ![t] = NoLocal]
    /\ printed' = [printed EXCEPT ![t] = <<>>]
    /\ ret' = [ret EXCEPT ![t] = <<>>]
    /\ raised' = [raised EXCEPT ![t] = None]
    /\ UNCHANGED <<asked, answer, sulfur_data, last_solution, history>>

\* lines 369-495: the problem is built; a malformed constraint value raises
Build(t) ==
    /\ pc[t] = "called"
    /\ LET a == args[t]
           max_sulfur == calculate_sulfur_steam(sulfur_data, <<>>)
           base == BaseProblem(a.elec_demand, a.steam_demand, max_sulfur)
           bc == BusinessConstraints(a.constraints)
       IN  IF bc.raised # None
           THEN /\ pc' = [pc EXCEPT ![t] = "raised"]
                /\ raised' = [raised EXCEPT ![t] = bc.raised]
                /\ history' = Append(history, Completed(a, <<>>, bc.raised))
                /\ UNCHANGED local
           ELSE /\ \E now \in (IF a.hour = <<>> THEN ClockHours ELSE {0}) :
                      local' = [local EXCEPT ![t] =
                          [max_sulfur |-> max_sulfur,
                           prob |-> [base EXCEPT !.cons = @ \cup bc.add,
                                                 !.grid_cost = get_grid_cost(a.hour, now)],
                           status |-> None,
                           x |-> ZeroPoint]]
                /\ pc' = [pc EXCEPT ![t] = "built"]
                /\ UNCHANGED <<raised, history>>
    /\ UNCHANGED <<asked, answer, sulfur_data, last_solution, args, printed, ret>>

\* lines 503-506: prob.solve(solver)
Solve(t) ==
    /\ pc[t] = "built"
    /\ \E out \in SolverOutcomes(local[t].prob) :
          local' = [local EXCEPT ![t].status = out.status, ![t].x = out.x]
    /\ pc' = [pc EXCEPT ![t] = "solved"]
    /\ UNCHANGED <<asked, answer, sulfur_data, last_solution, args, printed, ret, raised, history>>

\* lines 513-525: no optimal solution, the error dictionary is returned
ReturnNotOptimal(t) ==
    /\ pc[t] = "solved"
    /\ local[t].status # "Optimal"
    /\ LET r == NotOptimalResult(local[t].status, local[t].max_sulfur)
       IN  /\ ret' = [ret EXCEPT ![t] = <<r>>]
           /\ history' = Append(history, Completed(args[t], <<r>>, None))
    /\ pc' = [pc EXCEPT ![t] = "done"]
    /\ UNCHANGED <<asked, answer, sulfur_data, last_solution, args, local, printed, raised>>

\* lines 527-614: the solution is extracted and stored in self.last_solution
StoreSolution(t) ==
    /\ pc[t] = "solved"
    /\ local[t].status = "Optimal"
    /\ last_solution' =
          <<OptimalResult(args[t], local[t].max_sulfur, local[t].prob.grid_cost,
                          local[t].status, local[t].x)>>
    /\ pc' = [pc EXCEPT ![t] = IF args[t].verbose THEN "print" ELSE "return"]
    /\ UNCHANGED <<asked, answer, sulfur_data, args, local, printed, ret, raised, history>>

\* lines 616-617 and 621-654: print_solution() prints self.last_solution
PrintSolution(t) ==
    /\ pc[t] = "print"
    /\ printed' = [printed EXCEPT ![t] = last_solution]
    /\ pc' = [pc EXCEPT ![t] = "return"]
    /\ UNCHANGED <<asked, answer, sulfur_data, last_solution, args, local, ret, raised, history>>

\* line 619: return self.last_solution
Return(t) ==
    /\ pc[t] = "return"
    /\ ret' = [ret EXCEPT ![t] = last_solution]
    /\ history' = Append(history, Completed(args[t], last_solution, None))
    /\ pc' = [pc EXCEPT ![t] = "done"]
    /\ UNCHANGED <<asked, answer, sulfur_data, last_solution, args, local, printed, raised>>

Step(t) ==
    \/ Build(t)
    \/ Solve(t)
    \/ ReturnNotOptimal(t)
    \/ StoreSolution(t)
    \/ PrintSolution(t)
    \/ Return(t)

\* one caller, one call, any input
Next ==
    \/ Len(history) = 0 /\ \E a \in CallInputs : Call(1, a)
    \/ Step(1)
Spec == Init /\ [][Next]_vars

\* one caller, calls one after the other
NextSeq ==
    \/ \E a \in SeqInputs : Call(1, a)
    \/ Step(1)
SpecSeq == Init /\ [][NextSeq]_vars

\* threads calling the same instance
NextConc == \E t \in Threads : (\E a \in ConcInputs : Call(t, a)) \/ Step(t)
SpecConc == Init /\ [][NextConc]_vars

(***************************************************************************)
(* The helper methods, called directly: predict_gta_power and              *)
(* calculate_sulfur_steam on the instance, get_gta_coefficients and        *)
(* get_grid_cost on the configuration.                                     *)
(***************************************************************************)
MaxGeneratorIndex == 4
GeneratorIndexes == 0..MaxGeneratorIndex
Admissions == {0, 5000, 95000, 190000}
Soutirages == {0, 28500, 100000}
DayHours == 0..23
Timestamps == {<<>>, <<1>>, <<2>>, <<3>>, <<7>>}

\* a year of readings with gaps: a missing cell, the placeholder in
\* capitals, a cell that is no number
GappyData ==
    [columns |-> PlantData.columns,
     rows |-> << [Date |-> 1, cells |-> <<NumVal(1000), NaNVal,
                                          NumVal(10000), NumVal(9000)>>],
                 [Date |-> 2, cells |-> <<NumVal(2000), NumVal(20000),
                                          StrVal(<<"C","O","N","F","I","G","U","R","E">>),
                                          NaNVal>>],
                 [Date |-> 3, cells |-> <<NumVal(3000), StrVal(<<"n","/","a">>),
                                          NumVal(30000), NumVal(9000)>>] >>]
\* the columns alone, no reading yet
EmptyData == [columns |-> PlantData.columns, rows |-> <<>>]

HelperDataSets == SulfurDataSets \cup {<<GappyData>>, <<EmptyData>>}

Asked(method, arguments) == [method |-> method, args |-> arguments]
Returns(value) == [raised |-> None, value |-> <<value>>]

PredictGtaPower(admission, soutirage, gta_number) ==
    /\ asked' = <<Asked("predict_gta_power", <<admission, soutirage, gta_number>>)>>
    /\ answer' = <<Returns(predict_gta_power(admission, soutirage, gta_number))>>
    /\ UNCHANGED <<sulfur_data, last_solution, pc, args, local, printed, ret, raised,
                   history>>

GetGtaCoefficients(gta_number) ==
    /\ asked' = <<Asked("get_gta_coefficients", <<gta_number>>)>>
    /\ answer' = <<Returns(get_gta_coefficients(gta_number))>>
    /\ UNCHANGED <<sulfur_data, last_solution, pc, args, local, printed, ret, raised,
                   history>>

GetGridCost(hour) ==
    /\ asked' = <<Asked("get_grid_cost", <<hour>>)>>
    /\ \E now \in (IF hour = <<>> THEN ClockHours ELSE {0}) :
          answer' = <<Returns(get_grid_cost(hour, now))>>
    /\ UNCHANGED <<sulfur_data, last_solution, pc, args, local, printed, ret, raised,
                   history>>

CalculateSulfurSteam(timestamp) ==
    /\ asked' = <<Asked("calculate_sulfur_steam", <<timestamp>>)>>
    /\ answer' = <<Returns(calculate_sulfur_steam(sulfur_data, timestamp))>>
    /\ UNCHANGED <<sulfur_data, last_solution, pc, args, local, printed, ret, raised,
                   history>>

InitHelpers == sulfur_data \in HelperDataSets /\ NoCallYet
NextHelpers ==
    \/ \E a \in Admissions, s \in Soutirages, g \in GeneratorIndexes :
          PredictGtaPower(a, s, g)
    \/ \E g \in GeneratorIndexes : GetGtaCoefficients(g)
    \/ \E h \in {<<>>} \cup {<<d>> : d \in DayHours} : GetGridCost(h)
    \/ \E ts \in Timestamps : CalculateSulfurSteam(ts)
SpecHelpers == InitHelpers /\ [][NextHelpers]_vars

(***************************************************************************)
(* The API operation optimize_dispatch (simulation.py 122-182): one        *)
(* request, answered from the module-level optimizer.                      *)
(***************************************************************************)
\* the requests OptimizationRequest admits: demands within [0, 150] and
\* [0, 600], any constraints dictionary
ApiInputs ==
    {Args(e, s, c, <<14>>, v) :
        e \in {60000, 150000}, s \in {0, 600000},
        c \in {<<>>, Dict(AllOff), Dict(<<<<"cap_steam", StrVal(<<"a","b","c">>)>>>>)},
        v \in BOOLEAN}

Http(status_code, detail) == [status_code |-> status_code, detail |-> detail]

\* The exception the try block (143-176) ends with, None when it returns
\* the response: what optimize raised, or the HTTPException(400) raised on
\* a status that is not Optimal.
DispatchRaises(r, exc) ==
    IF exc # None THEN exc
    ELSE IF r[1].status # "Optimal" THEN "HTTPException(400)" ELSE None

\* except Exception (178-182) catches whatever the try block raised,
\* HTTPException being an Exception, and raises HTTPException(500).
DispatchResponse(r, exc) ==
    IF DispatchRaises(r, exc) # None
    THEN Http(500, "Optimization error")
    ELSE Http(200, "")

\* the handler answers once optimize has returned or raised
Respond(t) ==
    /\ pc[t] \in {"done", "raised"}
    /\ answer = <<>>
    /\ asked' = <<Asked("optimize_dispatch", <<args[t]>>)>>
    /\ answer' = <<DispatchResponse(ret[t], raised[t])>>
    /\ UNCHANGED <<sulfur_data, last_solution, pc, args, local, printed, ret, raised,
                   history>>

NextApi ==
    \/ Len(history) = 0 /\ \E a \in ApiInputs : Call(1, a)
    \/ Step(1)
    \/ Respond(1)
SpecApi == Init /\ [][NextApi]_vars

(***************************************************************************)
(* The recommendation engine _generate_recommendations (112-329), called   *)
(* once with any input.                                                    *)
(***************************************************************************)
Gta(gta_number, admission, soutirage, power) ==
    [gta_number |-> gta_number, admission |-> admission, soutirage |-> soutirage,
     power |-> power]
\* every generator idle; generator 1 near capacity and generator 2 at low
\* load; the three at low load, none above 1 MW
EngineGtas ==
    {<<Gta(1, 0, 0, 0), Gta(2, 0, 0, 0), Gta(3, 0, 0, 0)>>,
     <<Gta(1, 180000, 100000, 316300000), Gta(2, 50000, 70000, 3000000),
       Gta(3, 0, 0, 600000)>>,
     <<Gta(1, 12000, 0, 5900000), Gta(2, 3000, 0, 7500000), Gta(3, 2000, 0, 5700000)>>}

EngineInput(gtas, grid_import, boiler_output, sulfur_steam_used, baseline_grid, baseline_boiler, savings, elec_demand, steam_demand, hour) ==
    [gtas |-> gtas, grid_import |-> grid_import, boiler_output |-> boiler_output,
     sulfur_steam_used |-> sulfur_steam_used, baseline_grid |-> baseline_grid,
     baseline_boiler |-> baseline_boiler, savings |-> savings,
     elec_demand |-> elec_demand, steam_demand |-> steam_demand, hour |-> hour]

EngineInputs ==
    {EngineInput(g, e, fb, fs, bg, bb, sv, ed, sd, h) :
        g \in EngineGtas, e \in {0, 10000, 95000}, fb \in {0, 50000},
        fs \in {0, 80000}, bg \in {0, 120000}, bb \in {0, 50000},
        sv \in {-500000, 5000000}, ed \in {60000, 120000},
        sd \in {0, 400000, 700000}, h \in {<<>>} \cup {<<d>> : d \in DayHours}}

GenerateRecommendations(i) ==
    /\ asked = <<>>
    /\ asked' = <<Asked("_generate_recommendations", <<i>>)>>
    /\ answer' =
          <<Returns(generate_recommendations(i.gtas, i.grid_import, i.boiler_output,
                i.sulfur_steam_used, i.baseline_grid, i.baseline_boiler, i.savings,
                i.elec_demand, i.steam_demand, i.hour))>>
    /\ UNCHANGED <<sulfur_data, last_solution, pc, args, local, printed, ret, raised,
                   history>>

NextEngine == asked = <<>> /\ \E i \in EngineInputs : GenerateRecommendations(i)
SpecEngine == Init /\ [][NextEngine]_vars

(***************************************************************************)
(* The claims                                                              *)
(***************************************************************************)
\* the calls that have returned a dictionary
Returned == {t \in Threads : pc[t] = "done" /\ ret[t] # <<>>}
ReturnedOptimal == {t \in Returned : ret[t][1].status = "Optimal"}

\* reported generator power + grid import, less the required power, in PU
PowerSurplus(t) ==
    SumPower(ret[t][1].gtas, Len(ret[t][1].gtas))
    - args[t].elec_demand * POWER_SAFETY_MARGIN * 100
    + ret[t][1].grid_import * 10000
\* reported steam sources less the required steam, in 1/100000 T/hr
SteamSurplus(t) ==
    (SumSoutirage(ret[t][1].gtas, Len(ret[t][1].gtas))
     + ret[t][1].boiler_output + ret[t][1].sulfur_steam) * 100
    - args[t].steam_demand * STEAM_SAFETY_MARGIN

\* C1 as stated: in every Optimal result the reported generator powers plus
\* grid_import are at least elec_demand * 1.03, and the reported extractions
\* plus boiler_output plus sulfur_steam at least steam_demand * 1.05.
C1_DemandsMetExactly ==
    \A t \in ReturnedOptimal : PowerSurplus(t) >= 0 /\ SteamSurplus(t) >= 0

\* C1 amended: the same up to the rounding of the reported values to two
\* decimals: 0.02 MW for the four power terms, 0.025 T/hr for the five
\* steam terms.
C1_DemandsMetWithinRounding ==
    \A t \in ReturnedOptimal :
        PowerSurplus(t) >= 0 - 200000 /\ SteamSurplus(t) >= 0 - 2500

\* an Optimal result for positive demands
C1_Witness ==
    \E t \in ReturnedOptimal : args[t].elec_demand > 0 /\ args[t].steam_demand > 0

\* C2: in every Optimal result each generator's reported extraction is at
\* most its reported admission.
C2_SoutirageWithinAdmission ==
    \A t \in ReturnedOptimal : \A i \in GTAS :
        ret[t][1].gtas[i].soutirage <= ret[t][1].gtas[i].admission

\* an Optimal result in which a generator extracts steam
C2_Witness ==
    \E t \in ReturnedOptimal : \E i \in GTAS : ret[t][1].gtas[i].soutirage > 0

\* the items of the constraints argument, none for None
ItemsOf(a) == IF a.constraints = <<>> THEN <<>> ELSE a.constraints[1]
\* the constraints give generator i the status word, in any letter case
HasStatus(a, i, word) ==
    \E k \in 1..Len(ItemsOf(a)) :
        /\ StatusKey(ItemsOf(a)[k][1]) = i
        /\ ItemsOf(a)[k][2].type = "str"
        /\ Upper(ItemsOf(a)[k][2].chars) = word
\* ... spelled otherwise than in capitals
HasStatusNotInCapitals(a, i, word) ==
    \E k \in 1..Len(ItemsOf(a)) :
        /\ StatusKey(ItemsOf(a)[k][1]) = i
        /\ ItemsOf(a)[k][2].type = "str"
        /\ Upper(ItemsOf(a)[k][2].chars) = word
        /\ ItemsOf(a)[k][2].chars # word

\* C3: when the constraints hold gtaN_status = OFF in any letter case and
\* the result is Optimal, generator N's admission and extraction are 0.
C3_OffGeneratorIsZero ==
    \A t \in ReturnedOptimal : \A i \in GTAS :
        HasStatus(args[t], i, OFF) =>
            ret[t][1].gtas[i].admission = 0 /\ ret[t][1].gtas[i].soutirage = 0

\* an Optimal result for a positive demand with a generator switched "off"
\* in small letters while another generator runs
C3_Witness ==
    \E t \in ReturnedOptimal : \E i, j \in GTAS :
        /\ HasStatusNotInCapitals(args[t], i, OFF)
        /\ args[t].elec_demand > 0
        /\ ret[t][1].gtas[j].admission > 0

\* C4: when the constraints hold gtaN_status = MAINTENANCE and the result
\* is Optimal, generator N's admission is at most half of MAX_ADMISSION
\* (95 T/hr), and every generator's admission is within MAX_ADMISSION.
C4_MaintenanceHalvesAdmission ==
    \A t \in ReturnedOptimal : \A i \in GTAS :
        /\ ret[t][1].gtas[i].admission <= MAX_ADMISSION
        /\ HasStatus(args[t], i, MAINTENANCE) =>
               2 * ret[t][1].gtas[i].admission <= MAX_ADMISSION

\* an Optimal result with a generator in maintenance running, while
\* another generator is admitted more than half of MAX_ADMISSION
C4_Witness ==
    \E t \in ReturnedOptimal : \E i, j \in GTAS :
        /\ HasStatus(args[t], i, MAINTENANCE)
        /\ ret[t][1].gtas[i].admission > 0
        /\ 2 * ret[t][1].gtas[j].admission > MAX_ADMISSION

\* the threads whose problem is built
Built == {t \in Threads : pc[t] \in {"built", "solved", "print", "return", "done"}}
\* the number the constraints give under key, <<>> when they give none
NumberAt(a, key) ==
    LET ks == {k \in 1..Len(ItemsOf(a)) :
                  ItemsOf(a)[k][1] = key /\ FloatRaises(ItemsOf(a)[k][2]) = None}
    IN  IF ks = {} THEN <<>> ELSE <<FloatOf(ItemsOf(a)[CHOOSE k \in ks : TRUE][2])>>
\* the largest value the problem allows E_grid and F_sulfur
GridUpper(prob) ==
    SetMin({prob.up_grid}
           \cup {c.rhs : c \in {d \in prob.cons : d.name = "Max_Grid_Import_Override"}})
SulfurUpper(prob) ==
    SetMin({prob.up_sulfur}
           \cup {c.rhs : c \in {d \in prob.cons : d.name = "Sulfur_Recovery_Limit"}})

\* C5 as stated: max_grid_import = V makes the grid import range over
\* [0, V] and sulfur_max = V makes the free steam range over [0, V], also
\* for V above the default bound.
C5_LimitsReplaceDefaults ==
    \A t \in Built :
        /\ NumberAt(args[t], "max_grid_import") # <<>> =>
               GridUpper(local[t].prob) = NumberAt(args[t], "max_grid_import")[1]
        /\ NumberAt(args[t], "sulfur_max") # <<>> =>
               SulfurUpper(local[t].prob) = NumberAt(args[t], "sulfur_max")[1]

\* the calls that returned a result whose status is not Optimal
ReturnedNotOptimal == {t \in Returned : ret[t][1].status # "Optimal"}

\* C6: when the solver status is not Optimal the call raises nothing and
\* returns that status, no generator value other than zero, grid_import
\* and boiler_output 0, sulfur_steam equal to the free steam computed at
\* the start of the call, and an infinite total_cost.
C6_NotOptimalResult ==
    \A t \in Threads :
        /\ local[t].status \notin {None, "Optimal"} => raised[t] = None
        /\ t \in ReturnedNotOptimal =>
              /\ ret[t][1].status = local[t].status
              /\ \A k \in 1..Len(ret[t][1].gtas) :
                    /\ ret[t][1].gtas[k].admission = 0
                    /\ ret[t][1].gtas[k].soutirage = 0
                    /\ ret[t][1].gtas[k].power = 0
              /\ ret[t][1].grid_import = 0
              /\ ret[t][1].boiler_output = 0
              /\ ret[t][1].sulfur_steam = calculate_sulfur_steam(sulfur_data, <<>>)
              /\ ret[t][1].total_cost = Infinity

\* a call that returned the solver's Undefined status with the free steam
\* of the plant data
C6_Witness ==
    \E t \in ReturnedNotOptimal :
        ret[t][1].status = "Undefined" /\ ret[t][1].sulfur_steam > SULFUR_FALLBACK

\* what a call of t computes from its own arguments
OwnDemands(t) == [electricity |-> args[t].elec_demand, steam |-> args[t].steam_demand]

\* C7 as stated: of two calls running at once on one instance, each
\* returns and prints the dispatch of its own demands.
C7_CallsAreIndependent ==
    \A t \in Threads :
        /\ t \in ReturnedOptimal => ret[t][1].demands = OwnDemands(t)
        /\ printed[t] # <<>> => printed[t][1].demands = OwnDemands(t)

\* C8 as stated: once a call has returned, last_solution is the result of
\* the most recent call; it is None only before the first call.
C8_LastSolutionIsMostRecent ==
    (Active = {} /\ Len(history) > 0) =>
        last_solution = history[Len(history)].ret

\* the recommendations of a result hold a high-priority entry titled title
Recommends(r, title) ==
    /\ "recommendations" \in r.keys
    /\ \E k \in 1..Len(r.recommendations) :
          r.recommendations[k].title = title /\ r.recommendations[k].priority = "high"

\* C9 as stated: whatever the solver status, a demand above
\* MAX_TOTAL_POWER_PRODUCTION is answered with 'Demand Exceeds Plant
\* Capacity' and one above MAX_TOTAL_STEAM_PRODUCTION with 'Steam Demand
\* Infeasible', both of high priority.
C9_CapacityAlerts ==
    \A t \in Returned :
        /\ args[t].elec_demand > MAX_TOTAL_POWER_PRODUCTION =>
               Recommends(ret[t][1], "Demand Exceeds Plant Capacity")
        /\ args[t].steam_demand > MAX_TOTAL_STEAM_PRODUCTION =>
               Recommends(ret[t][1], "Steam Demand Infeasible")

\* the completed calls that returned an Optimal result
OptimalCalls == {k \in 1..Len(history) :
                    history[k].ret # <<>> /\ history[k].ret[1].status = "Optimal"}
\* two calls that differ in the electricity demand alone
SameButElec(j, k) ==
    /\ history[j].args.steam_demand = history[k].args.steam_demand
    /\ history[j].args.constraints = history[k].args.constraints
    /\ history[j].args.hour = history[k].args.hour
    /\ history[j].args.hour # <<>>

CallTotalCost(t) ==
    LET x == local[t].x
    IN    x.E_grid * local[t].prob.grid_cost
        + x.F_boiler * BOILER_COST
        + x.F_sulfur * SULFURIC_HEAT_COST
        + (Round2(x.A[1]) + Round2(x.A[2]) + Round2(x.A[3])) * GTA_FUEL_COST
\* baseline_cost of that call (lines 565-568)
CallBaselineCost(t) ==
    BaselineCost(args[t].elec_demand, args[t].steam_demand, local[t].max_sulfur,
                 local[t].prob.grid_cost)

\* C11: in every Optimal result savings is the baseline cost of that call
\* less its total cost, rounded to 2 decimals as the two reported costs
\* are, so that savings, baseline_cost and total_cost agree within 0.01 DH;
\* a negative difference is reported negative, never raised to zero.
C11_SavingsIsBaselineLessTotal ==
    \A t \in ReturnedOptimal :
        LET r == ret[t][1]
        IN  /\ r.savings = Round2(CallBaselineCost(t) - CallTotalCost(t))
            /\ r.baseline_cost = Round2(CallBaselineCost(t))
            /\ r.total_cost = Round2(CallTotalCost(t))
            /\ r.savings - (r.baseline_cost - r.total_cost) \in {-10, 0, 10}
            /\ (r.baseline_cost - r.total_cost < -10) => (r.savings < 0)
\* a call whose dispatch costs more than the baseline estimate
C11_Witness ==
    \E t \in ReturnedOptimal :
        /\ ret[t][1].baseline_cost < ret[t][1].total_cost - 10
        /\ ret[t][1].savings < 0


\* the Generator Power Model at the baseline load: admission 50% of
\* MAX_ADMISSION, extraction 30% of that admission; in PU
ModelPowerAtBaselineLoad ==
      predict_gta_power(BaselineAdmission, (BaselineAdmission * 3) \div 10, 1)
    + predict_gta_power(BaselineAdmission, (BaselineAdmission * 3) \div 10, 2)
    + predict_gta_power(BaselineAdmission, (BaselineAdmission * 3) \div 10, 3)

\* C12 as stated: the generator power the baseline estimate uses is the sum
\* over the three generators of the power model at the baseline load, so
\* that the baseline grid import of every Optimal result is the demand less
\* that power, floored at 0.
C12_BaselinePowerIsModelAtBaselineLoad ==
    \A t \in ReturnedOptimal :
        /\ baseline_gta_power = ModelPowerAtBaselineLoad
        /\ ret[t][1].baseline.grid_import =
              Round2(Max(0, args[t].elec_demand - ModelPowerAtBaselineLoad \div 10000))


\* the last direct call was of method
AskedFor(method) == asked # <<>> /\ asked[1].method = method

\* coef_a[g] * admission + coef_s[g] * extraction + intercept[g] with the
\* coefficients of generator g, in PU
OwnModelPower(g, admission, extraction) ==
    CASE g = 1 -> GTA1_COEF_A * admission + GTA1_COEF_S * extraction
                  + GTA1_INTERCEPT * 100000
      [] g = 2 -> GTA2_COEF_A * admission + GTA2_COEF_S * extraction
                  + GTA2_INTERCEPT * 100000
      [] g = 3 -> GTA3_COEF_A * admission + GTA3_COEF_S * extraction
                  + GTA3_INTERCEPT * 100000

AskedIndex ==
    IF AskedFor("predict_gta_power") THEN asked[1].args[3]
    ELSE IF AskedFor("get_gta_coefficients") THEN asked[1].args[1] ELSE 1

\* C14 as stated: the power prediction or the coefficients asked for a
\* generator index outside 1..3 fail with InvalidGeneratorIndex and return
\* no value.
C14_UnknownGeneratorFails ==
    AskedIndex \notin {1, 2, 3} =>
        answer[1].raised = "InvalidGeneratorIndex" /\ answer[1].value = <<>>


\* the Optimal results of calls made with an hour of the peak band
ReturnedAtPeak ==
    {t \in ReturnedOptimal : args[t].hour # <<>> /\ args[t].hour[1] \in 17..21}

\* C15: for a call at a peak hour with an Optimal result, cost_breakdown.grid
\* is the solved grid import priced at GRID_PEAK_COST, rounded to 2 decimals
\* as the reported grid_import is (so the two reported fields agree within
\* 0.005 MW * 1271 DH/MWh), and a high-priority 'Peak Tariff Alert' is
\* among the recommendations whenever grid_import is above 10 MW.
C15_PeakTariffAndAlert ==
    \A t \in ReturnedAtPeak :
        LET r == ret[t][1]
            solved == local[t].x.E_grid
        IN  /\ r.cost_breakdown.grid = Round2(solved * GRID_PEAK_COST)
            /\ r.grid_import = Round2(solved)
            /\ r.cost_breakdown.grid - r.grid_import * GRID_PEAK_COST \in -6360..6360
            /\ (solved > 10000 \/ r.grid_import > 10000) =>
                  Recommends(r, "Peak Tariff Alert (1.271 DH/kWh)")
\* a call at 17:00 that imports more than 10 MW and is alerted
C15_Witness ==
    \E t \in ReturnedAtPeak :
        /\ args[t].hour = <<17>>
        /\ ret[t][1].grid_import > 10000
        /\ ret[t][1].cost_breakdown.grid > 0
        /\ Recommends(ret[t][1], "Peak Tariff Alert (1.271 DH/kWh)")


\* the three bands of the day as the tariff table states them
PeakBand == 17..21
StandardBand == 7..16
OffPeakBand == (22..23) \cup (0..6)

ActedOnKeys ==
    {"gta1_status", "gta2_status", "gta3_status", "cap_steam", "max_grid_import",
     "sulfur_max"}
IsActedOn(item) == item[1] \in ActedOnKeys
\* the call carries min_gta_count or another key optimize does not act on
HasOtherKey(a) == \E k \in 1..Len(ItemsOf(a)) : ~IsActedOn(ItemsOf(a)[k])
\* the same call without those keys
WithoutOtherKeys(a) == [a EXCEPT !.constraints = Dict(SelectSeq(ItemsOf(a), IsActedOn))]

\* C17: a call whose constraints carry min_gta_count, or any other key
\* optimize does not act on, with any value, raises what the same call
\* without those keys raises (nothing, when that call raises nothing),
\* solves the same problem, and returns the same status, dispatch, costs
\* and recommendations; only constraints_applied echoes the extra keys.
C17_OtherKeysChangeNothing ==
    \A t \in Threads :
        (pc[t] \notin {"idle", "called"} /\ HasOtherKey(args[t])) =>
            LET b == WithoutOtherKeys(args[t])
                bc == BusinessConstraints(b.constraints)
                base == BaseProblem(b.elec_demand, b.steam_demand, local[t].max_sulfur)
            IN  /\ raised[t] = bc.raised
                /\ (bc.raised = None) =>
                      /\ pc[t] # "raised"
                      /\ local[t].prob =
                            [base EXCEPT !.cons = @ \cup bc.add,
                                         !.grid_cost = get_grid_cost(b.hour, 0)]
                /\ (t \in ReturnedOptimal) =>
                      [ret[t][1] EXCEPT !.constraints_applied = ItemsOf(b)] =
                          OptimalResult(b, local[t].max_sulfur, local[t].prob.grid_cost,
                                        local[t].status, local[t].x)
                /\ (t \in ReturnedNotOptimal) =>
                      ret[t][1] = NotOptimalResult(local[t].status, local[t].max_sulfur)
\* generator 1 OFF together with min_gta_count = 'x': solved as if
\* generator 1 OFF alone
C17_Witness ==
    \E t \in ReturnedOptimal :
        /\ HasOtherKey(args[t])
        /\ \E k \in 1..Len(ItemsOf(args[t])) :
              /\ ItemsOf(args[t])[k][1] = "min_gta_count"
              /\ ItemsOf(args[t])[k][2].type = "str"
        /\ HasStatus(args[t], 1, OFF)
        /\ ret[t][1].gtas[1].admission = 0
        /\ ret[t][1].gtas[2].admission + ret[t][1].gtas[3].admission > 0


\* a status that is no string, or a limit float() cannot read
MalformedItem(item) ==
    \/ StatusKey(item[1]) # 0 /\ item[2].type # "str"
    \/ /\ item[1] \in {"cap_steam", "max_grid_import", "sulfur_max"}
       /\ FloatRaises(item[2]) # None
\* a negative demand or a malformed business-constraint value
IsInvalidInput(a) ==
    \/ a.elec_demand < 0
    \/ a.steam_demand < 0
    \/ \E k \in 1..Len(ItemsOf(a)) : MalformedItem(ItemsOf(a)[k])

\* C18 as stated: a call with a negative demand or a malformed
\* business-constraint value fails with InvalidInput, so it never gets to a
\* built or solved problem and returns nothing.
C18_InvalidInputFailsFast ==
    \A t \in Threads :
        (pc[t] \notin {"idle", "called"} /\ IsInvalidInput(args[t])) =>
            pc[t] = "raised" /\ raised[t] = "InvalidInput" /\ ret[t] = <<>>


\* the last direct call was calculate_sulfur_steam on an instance that
\* holds a dataset
AskedSulfur == AskedFor("calculate_sulfur_steam") /\ sulfur_data # <<>>
AskedTimestamp == asked[1].args[1]

\* C19 as stated: calculate_sulfur_steam called with a timestamp that no
\* row of the dataset carries fails with NoMatchingRecord and returns no
\* value.
C19_UnknownTimestampFails ==
    ( /\ AskedSulfur
      /\ AskedTimestamp # <<>>
      /\ \A k \in 1..Len(sulfur_data[1].rows) :
            sulfur_data[1].rows[k].Date # AskedTimestamp[1] ) =>
        answer[1].raised = "NoMatchingRecord" /\ answer[1].value = <<>>

\* a number, the placeholder in any letter case, or a missing cell
IsFlowCell(val) ==
    \/ val.type \in {"num", "nan"}
    \/ val.type = "str" /\ (Lower(val.chars) = CONFIGURE \/ IsNumeral(val.chars))
\* what the cell counts for: the placeholder and a missing cell count 0
CountedFlow(val) ==
    IF val.type = "nan" \/ (val.type = "str" /\ Lower(val.chars) = CONFIGURE)
    THEN 0 ELSE FloatOf(val)
RECURSIVE CountedSum(_, _, _)
CountedSum(cells, cols, k) ==
    IF k = 0 THEN 0
    ELSE CountedSum(cells, cols, k - 1) + (IF k \in cols THEN CountedFlow(cells[k]) ELSE 0)

\* C20 as stated: for a selected row whose sulfur/soufre cells are numbers,
\* placeholders or missing, calculate_sulfur_steam returns the sum of those
\* cells with the placeholder and the missing cell counted 0; what it
\* returns is a finite number.
C20_SumCountsGapsAsZero ==
    AskedSulfur =>
        LET data == sulfur_data[1]
            row == SelectedRow(data, AskedTimestamp)
            cols == sulfur_columns(data)
        IN  /\ answer[1].value # <<NaN>>
            /\ (row # <<>> /\ \A k \in cols : IsFlowCell(row[1].cells[k])) =>
                  answer[1].value = <<CountedSum(row[1].cells, cols, Len(row[1].cells))>>


\* the try block of calculate_sulfur_steam fails on the selection (no row)
\* or on a cell that float() cannot read
ReadingFails(data, timestamp) ==
    LET row == SelectedRow(data, timestamp)
    IN  \/ row = <<>>
        \/ \E k \in sulfur_columns(data) : CellRaises(row[1].cells[k]) # None

\* C21: calculate_sulfur_steam raises nothing; with no dataset it returns
\* the fallback 50.0, and when reading the dataset fails (no row selected,
\* a cell that is neither a number nor the placeholder) it returns the
\* same fallback.
C21_FallbackNeverRaises ==
    AskedFor("calculate_sulfur_steam") =>
        /\ answer[1].raised = None
        /\ Len(answer[1].value) = 1
        /\ sulfur_data = <<>> => answer[1].value = <<SULFUR_FALLBACK>>
        /\ (sulfur_data # <<>> /\ ReadingFails(sulfur_data[1], asked[1].args[1])) =>
              answer[1].value = <<SULFUR_FALLBACK>>
\* the row dated 3 holds 'n/a' in a sulfur column: the fallback is returned
C21_Witness ==
    /\ AskedFor("calculate_sulfur_steam")
    /\ sulfur_data = <<GappyData>>
    /\ asked[1].args[1] = <<3>>
    /\ \E k \in sulfur_columns(GappyData) :
          CellRaises(GappyData.rows[3].cells[k]) = "ValueError"
    /\ answer[1].value = <<SULFUR_FALLBACK>>


\* the request has been answered
Responded == AskedFor("optimize_dispatch")

\* C22 as stated: a request whose problem has no optimal solution is
\* answered 400 'No optimal solution found', and 500 'Optimization error'
\* answers only a request during which optimize raised an exception.
C22_InfeasibleIsNotAFault ==
    Responded =>
        /\ (raised[1] = None /\ ret[1] # <<>> /\ ret[1][1].status # "Optimal") =>
              answer[1] = Http(400, "No optimal solution found")
        /\ answer[1].status_code = 500 => raised[1] # None


\* C23 as stated: for every generator of every Optimal result, the power
\* the electricity-demand constraint counts for the solved admission and
\* extraction is the power the result reports for them, the power model
\* floored at zero, a generator at admission = extraction = 0 included.
C23_ConstraintPowerIsReportedPower ==
    \A t \in ReturnedOptimal : \A i \in GTAS :
        Round2Power(GtaPowerExpr(i, local[t].x)) = ret[t][1].gtas[i].power


\* the call of the recommendation engine, its input and the list it returned
EngineCalled == AskedFor("_generate_recommendations")
EngineInputGiven == asked[1].args[1]
EngineOutput == answer[1].value[1]
Emitted(title) == \E k \in 1..Len(EngineOutput) : EngineOutput[k].title = title

\* C24: whenever the recommendation engine is given grid_import above 90 MW
\* it emits the high-priority 'Grid Capacity Warning', whatever other rule
\* (the 'Grid Import Optimized' praise included) also applies.
C24_HighImportAlwaysWarned ==
    (EngineCalled /\ EngineInputGiven.grid_import > 90000)
        => \E k \in 1..Len(EngineOutput) :
              /\ EngineOutput[k].title = "Grid Capacity Warning"
              /\ EngineOutput[k].priority = "high"

\* C25: for an hour in 0..23 the engine emits the 'Off-Peak Advantage
\* Active' note exactly for the hours 22, 23 and 0..6, and for no hour of
\* 7..21.
C25_OffPeakNoteByHour ==
    (EngineCalled /\ EngineInputGiven.hour # <<>>)
        => (Emitted("Off-Peak Advantage Active")
              <=> EngineInputGiven.hour[1] \in {22, 23} \cup 0..6)

\* C27: for every input of the engine exactly one of the two pressure
\* recommendations, 'MP Pressure Risk' or 'Process Reliability: Stable',
\* is emitted; for no input neither is.
C27_OnePressureRecommendation ==
    EngineCalled
        => Emitted("MP Pressure Risk") # Emitted("Process Reliability: Stable")

\* the place of an entry in the rule-emission order: the rule group, and
\* within the per-generator group the generator
EmissionRank(rec) ==
    CASE rec.title = "Optimization Savings Identified" -> 10
      [] rec.title \in {"Push GTA to Capacity", "Adjust GTA Setpoint"} -> 20 + rec.gta
      [] rec.title \in {"Shutdown Auxiliary Boiler", "Expensive Steam Source Active"} -> 30
      [] rec.title \in {"Peak Tariff Alert (1.271 DH/kWh)", "Peak Shaving Successful"} -> 40
      [] rec.title \in {"Grid Import Optimized", "Grid Capacity Warning"} -> 50
      [] rec.title \in {"MP Pressure Risk", "Process Reliability: Stable"} -> 60
      [] rec.title = "Free Steam Maximized" -> 70
      [] rec.title = "No GTAs Running" -> 80
      [] rec.title = "Demand Exceeds Plant Capacity" -> 90
      [] rec.title = "Steam Demand Infeasible" -> 100
      [] rec.title = "Off-Peak Advantage Active" -> 110
      [] OTHER -> 0

\* C28: the recommendation list is in rule-emission order (savings, the
\* generators 1, 2, 3, boiler, peak tariff, grid trend, pressure, free
\* steam, no generators, power capacity, steam capacity, off-peak) and is
\* never re-sorted by priority.
C28_EmissionOrder ==
    EngineCalled
        => \A j, k \in 1..Len(EngineOutput) :
              j < k => /\ EmissionRank(EngineOutput[j]) > 0
                       /\ EmissionRank(EngineOutput[j]) < EmissionRank(EngineOutput[k])

\* a low-priority entry precedes a high-priority one
C28_Witness ==
    /\ EngineCalled
    /\ \E j, k \in 1..Len(EngineOutput) :
          /\ j < k
          /\ EngineOutput[j].priority = "low"
          /\ EngineOutput[k].priority = "high"


\* the tariff band a grid price belongs to
PriceBand(grid_cost) ==
    IF grid_cost = GRID_PEAK_COST THEN "Peak"
    ELSE IF grid_cost = GRID_STANDARD_COST THEN "Standard" ELSE "Off-Peak"

\* C26: for every hour argument of optimize (0..23 or omitted) the tariff
\* band the recommendation engine classifies the call into is the band of
\* the price get_grid_cost gave for the objective and the cost breakdown of
\* that same call.
C26_EngineBandIsPriceBand ==
    \A t \in ReturnedOptimal :
        Period(args[t].hour) = PriceBand(local[t].prob.grid_cost)

\* C29: in every Optimal result a generator forced OFF by gtaN_status = OFF
\* has reported power exactly 0, for each N of 1, 2, 3.
C29_OffGeneratorHasNoPower ==
    \A t \in ReturnedOptimal : \A i \in GTAS :
        HasStatus(args[t], i, OFF) => ret[t][1].gtas[i].power = 0


\* C30: in every Optimal result of optimize the recommendations hold
\* 'Process Reliability: Stable' and never 'MP Pressure Risk', the steam
\* constraint keeping total steam at or above 1.05 times the steam demand.
C30_OptimalIsAlwaysStable ==
    \A t \in ReturnedOptimal :
        LET recs == ret[t][1].recommendations
        IN  /\ \E k \in 1..Len(recs) : recs[k].title = "Process Reliability: Stable"
            /\ \A k \in 1..Len(recs) : recs[k].title # "MP Pressure Risk"

=============================================================================
